---- MODULE Spec2Model ----
(***************************************************************************)
(* Model of test-tools/src/main.js: the Google authorization-code capture  *)
(* page and its backend code exchange.                                     *)
(*                                                                         *)
(* The page is a set of DOM nodes written by event handlers that run to    *)
(* completion one at a time (single-threaded event loop).  Every handler   *)
(* is one action; the asynchronous exchange handler is split at its two    *)
(* awaits (fetch, response.json()).  The identity provider SDK and the     *)
(* backend are the environment: their outcomes are drawn from small sets.  *)
(*                                                                         *)
(* The user-visible texts of the source are Chinese; string literals here  *)
(* are ASCII renderings, the original text is given next to each.          *)
(***************************************************************************)
EXTENDS Integers, Sequences, FiniteSets, TLC

-----------------------------------------------------------------------------
(* Bounds *)

\* number of provider clients constructed (initCodeClient calls that return)
MaxAttempts == 2
\* number of POST requests explored
MaxExchanges == 2
\* number of navigator.clipboard.writeText calls explored
MaxCopies == 2

-----------------------------------------------------------------------------
(* JavaScript values *)

\* the JavaScript value undefined (an absent property)
UNDEFINED == "<undefined>"

\* JavaScript truthiness of a string-or-undefined value: if (v), !v
Truthy(v) == v # UNDEFINED /\ v # ""

\* a || b
Or(a, b) == IF Truthy(a) THEN a ELSE b

RECURSIVE TrimStart(_)
TrimStart(s) ==
    IF Len(s) > 0 /\ SubSeq(s, 1, 1) = " " THEN TrimStart(SubSeq(s, 2, Len(s))) ELSE s

RECURSIVE TrimEnd(_)
TrimEnd(s) ==
    IF Len(s) > 0 /\ SubSeq(s, Len(s), Len(s)) = " "
    THEN TrimEnd(SubSeq(s, 1, Len(s) - 1)) ELSE s

\* String.prototype.trim
Trim(s) == TrimEnd(TrimStart(s))

-----------------------------------------------------------------------------
(* Texts written by the handlers *)

\* '正在開啟 Google 授權視窗...'
MsgOpening == "opening Google authorization window..."
\* '成功獲取 Authorization Code！'
MsgCodeObtained == "authorization code obtained"
\* `發生錯誤: ${response.error}`
PrefixProviderError == "error occurred: "
\* `初始化失敗: ${error.message}`
PrefixInitFailed == "initialization failed: "
\* '正在嘗試登入後端...'
MsgBackendPending == "logging in to backend..."
\* '後端登入成功！'
MsgBackendOk == "backend login succeeded"
\* `後端登入失敗: ${data.detail || response.statusText}`
PrefixBackendFailed == "backend login failed: "
\* `連線失敗: ${error.message}`
PrefixNetwork == "connection failed: "
\* alert('請先輸入 Google Client ID')
AlertMissingClientId == "please enter a Google Client ID first"
\* alert('Google GIS SDK 尚未載入，請稍候或檢查網路連線')
AlertSdkUnavailable == "Google GIS SDK not loaded yet"
\* alert('登入成功！Token 已顯示在下方，點擊區塊即可複製。')
AlertLoginOk == "login succeeded, tokens are shown below"
\* no alert shown by the handler
NoAlert == ""
\* the 'N/A' shown for a token the backend did not send
NotAvailable == "N/A"

-----------------------------------------------------------------------------
(* Environment: inputs the handlers can receive *)

\* contents of the client id text box when the button is clicked
\* (VITE_GOOGLE_OAUTH_CLIENT_ID, or what the user typed since)
ClientIdValues == {"", " ", " cid "}

\* error.message of an exception thrown by the SDK, by fetch or by json()
ErrorMessages == {"boom"}

\* values of the code property of a provider callback payload
CodeValues == {UNDEFINED, "", "X", "Y"}
\* values of the error property of a provider callback payload
ErrorValues == {UNDEFINED, "", "E"}

\* provider callback payload { code?: string, error?: string }
Responses == [code : CodeValues, error : ErrorValues]

\* outcome of google.accounts.oauth2.initCodeClient(...)
InitOutcomes == [kind : {"ok"}, message : {""}] \cup [kind : {"throw"}, message : ErrorMessages]

NoResponse == [code |-> UNDEFINED, error |-> UNDEFINED]

\* outcome of client.requestCode(): the popup is opened and the callback comes
\* later ("async"), the SDK (a mock) invokes the callback before returning
\* ("sync"), or the call throws
RequestOutcomes ==
    [kind : {"async"}, message : {""}, response : {NoResponse}]
    \cup [kind : {"sync"}, message : {""}, response : Responses]
    \cup [kind : {"throw"}, message : ErrorMessages, response : {NoResponse}]

NoInit == [kind |-> "none", message |-> ""]
NoRequest == [kind |-> "none", message |-> "", response |-> NoResponse]

-----------------------------------------------------------------------------
(* Page state *)

VARIABLES
    client,         \* let client: 0 is null, n > 0 the n-th client initCodeClient returned
    sdkLoaded,      \* typeof google !== 'undefined'
    statusBar,      \* statusBar.className
    statusText,     \* statusText.textContent
    codeSection,    \* codeSection.style.display
    authCode,       \* authCode.textContent
    tokenSection,   \* tokenSection.style.display
    accessToken,    \* accessToken.textContent
    refreshToken,   \* refreshToken.textContent
    requestCalls,   \* number of requestCode calls made
    outstanding,    \* clients whose requestCode was called and whose callback has not come yet
    errorDelivered, \* <<e>> for the error property e of the payload delivered last, <<>> before
    codeDelivered,  \* <<c>> for the last delivered non-empty code c, <<>> before
    codeAccepted,   \* <<c>> for the last one delivered with no non-empty error, <<>> before
    postCount,      \* number of POST requests issued
    inflight,       \* exchange handlers suspended at an await
    clipboard,      \* <<t>> for the text t written to the clipboard last, <<>> before
    copyCount,      \* number of navigator.clipboard.writeText calls made
    copying,        \* writeText calls whose promise has not settled yet
    acks,           \* elements showing the copied look (button text, block background)
    timers,         \* setTimeout callbacks that will restore an element's look
    last            \* the handler that ran last, with what it read and what the environment gave it

vars == <<client, sdkLoaded, statusBar, statusText, codeSection, authCode,
          tokenSection, accessToken, refreshToken, requestCalls, outstanding,
          errorDelivered, codeDelivered, codeAccepted, postCount, inflight,
          clipboard, copyCount, copying, acks, timers, last>>

domVars == <<statusBar, statusText, codeSection, authCode, tokenSection, accessToken,
             refreshToken>>
providerVars == <<requestCalls, outstanding>>
callbackVars == <<errorDelivered, codeDelivered, codeAccepted>>
copyVars == <<clipboard, copyCount, copying, acks, timers>>

\* the DOM nodes the handlers write, as one value
Dom ==
    [statusBar |-> statusBar, statusText |-> statusText,
     codeSection |-> codeSection, authCode |-> authCode,
     tokenSection |-> tokenSection, accessToken |-> accessToken,
     refreshToken |-> refreshToken]

\* the handler leaves the DOM as d
SetDom(d) ==
    /\ statusBar' = d.statusBar
    /\ statusText' = d.statusText
    /\ codeSection' = d.codeSection
    /\ authCode' = d.authCode
    /\ tokenSection' = d.tokenSection
    /\ accessToken' = d.accessToken
    /\ refreshToken' = d.refreshToken

\* the document as loaded, before any handler ran (index.html)
InitialPage ==
    [statusBar |-> "status idle", statusText |-> "",
     codeSection |-> "none", authCode |-> "",
     tokenSection |-> "none", accessToken |-> "", refreshToken |-> ""]

NoHttp == [ok |-> FALSE, statusText |-> ""]
NoBody == [kind |-> "none", message |-> "",
           data |-> [access_token |-> UNDEFINED, access |-> UNDEFINED,
                     refresh_token |-> UNDEFINED, refresh |-> UNDEFINED,
                     detail |-> UNDEFINED]]

\* record of a handler run; fields a handler does not use keep these values
NoLast ==
    [op |-> "none", clientId |-> "", sdk |-> FALSE, init |-> NoInit, request |-> NoRequest,
     client |-> 0, response |-> NoResponse, code |-> "", posted |-> <<>>, id |-> 0,
     settled |-> "none",
     element |-> "", text |-> "", written |-> <<>>,
     message |-> "", http |-> NoHttp, body |-> NoBody, alert |-> NoAlert]

Init ==
    /\ client = 0
    /\ sdkLoaded \in BOOLEAN
    /\ statusBar = InitialPage.statusBar
    /\ statusText = InitialPage.statusText
    /\ codeSection = InitialPage.codeSection
    /\ authCode = InitialPage.authCode
    /\ tokenSection = InitialPage.tokenSection
    /\ accessToken = InitialPage.accessToken
    /\ refreshToken = InitialPage.refreshToken
    /\ requestCalls = 0
    /\ outstanding = {}
    /\ errorDelivered = <<>>
    /\ codeDelivered = <<>>
    /\ codeAccepted = <<>>
    /\ postCount = 0
    /\ inflight = {}
    /\ clipboard = <<>>
    /\ copyCount = 0
    /\ copying = {}
    /\ acks = {}
    /\ timers = {}
    /\ last = NoLast

-----------------------------------------------------------------------------
(* Status reporter and provider callback *)

\* setStatus writing the message only
setStatusMessageOnly(d, type, message) ==
    [d EXCEPT !.statusText = message]

\* function setStatus(type, message)
setStatus(d, type, message) ==
    [d EXCEPT !.statusBar = "status " \o type, !.statusText = message]

\* handleCodeResponse without the return that ends the error branch
handleCodeResponseFallsThrough(d, response) ==
    LET reported == IF Truthy(response.error)
                    THEN setStatus(d, "error", PrefixProviderError \o response.error)
                    ELSE d
    IN  IF Truthy(response.code)
        THEN setStatus([reported EXCEPT !.codeSection = "block", !.authCode = response.code],
                       "success", MsgCodeObtained)
        ELSE reported

\* handleCodeResponse reporting a provider error as still pending
handleCodeResponseErrorAsPending(d, response) ==
    IF Truthy(response.error)
    THEN setStatus(d, "pending", PrefixProviderError \o response.error)
    ELSE IF Truthy(response.code)
         THEN setStatus([d EXCEPT !.codeSection = "block", !.authCode = response.code],
                        "success", MsgCodeObtained)
         ELSE d

\* handleCodeResponse clearing the tokens of the earlier code when it stores a
\* new one
handleCodeResponseClearsTokens(d, response) ==
    IF Truthy(response.error)
    THEN setStatus(d, "error", PrefixProviderError \o response.error)
    ELSE IF Truthy(response.code)
         THEN setStatus([d EXCEPT !.codeSection = "block", !.authCode = response.code,
                                  !.tokenSection = "none", !.accessToken = "",
                                  !.refreshToken = ""],
                        "success", MsgCodeObtained)
         ELSE d

\* function handleCodeResponse(response)
handleCodeResponse(d, response) ==
    IF Truthy(response.error)
    THEN setStatus(d, "error", PrefixProviderError \o response.error)
    ELSE IF Truthy(response.code)
         THEN setStatus([d EXCEPT !.codeSection = "block", !.authCode = response.code],
                        "success", MsgCodeObtained)
         ELSE d

-----------------------------------------------------------------------------
(* Authorization stage *)

\* the guards of the click handler without the client id check
PreconditionSkipsClientId(clientId, sdk) ==
    IF ~sdk THEN AlertSdkUnavailable ELSE NoAlert

\* the guards of the click handler: the alert it shows when it returns early,
\* NoAlert when it goes on to the try block
Precondition(clientId, sdk) ==
    IF ~Truthy(clientId) THEN AlertMissingClientId
    ELSE IF ~sdk THEN AlertSdkUnavailable
    ELSE NoAlert

\* the try/catch of the click handler with the pending status written after
\* requestCode returned instead of before the call
TryRequestCodePendingLast(d, init, request) ==
    IF init.kind = "throw"
    THEN setStatus(d, "error", PrefixInitFailed \o init.message)
    ELSE LET called == IF request.kind = "sync"
                       THEN handleCodeResponse(d, request.response)
                       ELSE d
         IN  IF request.kind = "throw"
             THEN setStatus(called, "error", PrefixInitFailed \o request.message)
             ELSE setStatus(called, "pending", MsgOpening)

\* the click handler without its catch block: an exception ends the handler
\* where it was thrown
TryRequestCodeUncaught(d, init, request) ==
    IF init.kind = "throw"
    THEN d
    ELSE LET pending == setStatus(d, "pending", MsgOpening)
         IN  IF request.kind = "sync"
             THEN handleCodeResponse(pending, request.response)
             ELSE pending

\* the try/catch of the click handler: the DOM it leaves, given what
\* initCodeClient and requestCode do
TryRequestCode(d, init, request) ==
    IF init.kind = "throw"
    THEN setStatus(d, "error", PrefixInitFailed \o init.message)
    ELSE LET pending == setStatus(d, "pending", MsgOpening)
             called == IF request.kind = "sync"
                       THEN handleCodeResponse(pending, request.response)
                       ELSE pending
         IN  IF request.kind = "throw"
             THEN setStatus(called, "error", PrefixInitFailed \o request.message)
             ELSE called

\* a requestCode that cancels the callbacks registered by earlier clients
RegisterCancelsEarlier(registered, c) == {c}

\* requestCode on client c: its callback is registered next to those that
\* earlier clients registered and that have not been invoked yet
Register(registered, c) == registered \cup {c}

\* the SDK invokes the registered callback with response
Deliver(response) ==
    /\ errorDelivered' = <<response.error>>
    /\ codeDelivered' = IF Truthy(response.code) THEN <<response.code>> ELSE codeDelivered
    /\ codeAccepted' = IF Truthy(response.code) /\ ~Truthy(response.error)
                       THEN <<response.code>> ELSE codeAccepted

\* googleLoginBtn.addEventListener('click', ...)
googleLoginBtnClick(values, inits, requests) ==
    \E clientIdInput \in values :
    LET clientId == Trim(clientIdInput)
        alert == Precondition(clientId, sdkLoaded)
        seen == [NoLast EXCEPT !.op = "googleLoginBtn", !.clientId = clientId,
                               !.sdk = sdkLoaded, !.alert = alert]
    IN  IF alert # NoAlert
        THEN /\ last' = seen
             /\ UNCHANGED <<client, sdkLoaded, domVars, providerVars,
                            callbackVars, postCount, inflight, copyVars>>
        ELSE /\ requestCalls < MaxAttempts
             /\ \E init \in inits :
                \E request \in IF init.kind = "throw" THEN {NoRequest} ELSE requests :
                    /\ client' = IF init.kind = "throw" THEN client ELSE requestCalls + 1
                    /\ requestCalls' = IF init.kind = "throw" THEN requestCalls
                                       ELSE requestCalls + 1
                    /\ outstanding' = IF request.kind = "async"
                                      THEN Register(outstanding, requestCalls + 1)
                                      ELSE outstanding
                    /\ IF request.kind = "sync"
                       THEN Deliver(request.response)
                       ELSE UNCHANGED <<callbackVars>>
                    /\ SetDom(TryRequestCode(Dom, init, request))
                    /\ last' = [seen EXCEPT !.init = init, !.request = request]
             /\ UNCHANGED <<sdkLoaded, postCount, inflight, copyVars>>

\* the provider SDK invokes the callback registered by an earlier requestCode
ProviderCallback(responses) ==
    \E c \in outstanding, response \in responses :
        /\ outstanding' = outstanding \ {c}
        /\ Deliver(response)
        /\ SetDom(handleCodeResponse(Dom, response))
        /\ last' = [NoLast EXCEPT !.op = "handleCodeResponse", !.client = c,
                                  !.response = response]
        /\ UNCHANGED <<client, sdkLoaded, requestCalls, postCount, inflight, copyVars>>

\* the GIS script finishes loading: the global google becomes defined
SdkLoads ==
    /\ ~sdkLoaded
    /\ sdkLoaded' = TRUE
    /\ UNCHANGED <<client, domVars, providerVars, callbackVars, postCount, inflight, last, copyVars>>

-----------------------------------------------------------------------------
(* Exchange stage *)

\* response.ok and response.statusText of the backend's answer
HttpOutcomes ==
    [ok : {TRUE}, statusText : {"OK"}] \cup [ok : {FALSE}, statusText : {"", "Bad Request"}]

\* the properties of a JSON object body the handler reads: every combination
\* of the four token properties without detail, and every detail with no token
\* property or with all four
BodyData ==
    {d \in [access_token : {UNDEFINED, "", "A"}, access : {UNDEFINED, "", "a"},
            refresh_token : {UNDEFINED, "", "R"}, refresh : {UNDEFINED, "", "r"},
            detail : {UNDEFINED, "", "bad code"}] :
        \/ d.detail = UNDEFINED
        \/ <<d.access_token, d.access, d.refresh_token, d.refresh>>
              \in {<<UNDEFINED, UNDEFINED, UNDEFINED, UNDEFINED>>, <<"A", "a", "R", "r">>}}

\* what response.json() gives: it rejects ("unparsable"), or resolves to the
\* JSON value null, or to a JSON object
Bodies ==
    [kind : {"unparsable"}, message : ErrorMessages, data : {NoBody.data}]
    \cup [kind : {"null"}, message : {""}, data : {NoBody.data}]
    \cup [kind : {"object"}, message : {""}, data : BodyData]

\* an unparsable body, null, and the bodies of the documented examples
\* {access_token: "A", refresh: "r"} and {detail: "bad code"}
BodySamples ==
    {b \in Bodies :
        b.kind = "object" =>
            b.data \in {[NoBody.data EXCEPT !.access_token = "A", !.refresh = "r"],
                        [NoBody.data EXCEPT !.detail = "bad code"]}}

\* error.message of the TypeError thrown by reading a property of null
NullReadMessage(property) == "Cannot read properties of null (reading '" \o property \o "')"

\* the exchange handler without its guard
CodeMissingNever(code) == FALSE

\* if (!code) return;
CodeMissing(code) == ~Truthy(code)

\* a catch block that swallows the error
CatchNetworkErrorSilent(d, message) == d

\* catch (error) { setStatus('error', `連線失敗: ${error.message}`) }
CatchNetworkError(d, message) == setStatus(d, "error", PrefixNetwork \o message)

\* the handler with the refresh token read from the access token properties
AfterJsonRefreshFromAccess(d, http, body) ==
    IF body.kind = "unparsable"
    THEN CatchNetworkError(d, body.message)
    ELSE IF http.ok
         THEN LET shown == [setStatus(d, "success", MsgBackendOk) EXCEPT !.tokenSection = "block"]
              IN  IF body.kind = "null"
                  THEN CatchNetworkError(shown, NullReadMessage("access_token"))
                  ELSE [shown EXCEPT
                          !.accessToken = Or(body.data.access_token, Or(body.data.access, "N/A")),
                          !.refreshToken = Or(body.data.access_token, Or(body.data.access, "N/A"))]
         ELSE IF body.kind = "null"
              THEN CatchNetworkError(d, NullReadMessage("detail"))
              ELSE setStatus(d, "error",
                             PrefixBackendFailed \o Or(body.data.detail, http.statusText))

\* the handler with the failure message built from the status text alone
AfterJsonStatusTextOnly(d, http, body) ==
    IF body.kind = "unparsable"
    THEN CatchNetworkError(d, body.message)
    ELSE IF http.ok
         THEN LET shown == [setStatus(d, "success", MsgBackendOk) EXCEPT !.tokenSection = "block"]
              IN  IF body.kind = "null"
                  THEN CatchNetworkError(shown, NullReadMessage("access_token"))
                  ELSE [shown EXCEPT
                          !.accessToken = Or(body.data.access_token, Or(body.data.access, "N/A")),
                          !.refreshToken = Or(body.data.refresh_token, Or(body.data.refresh, "N/A"))]
         ELSE IF body.kind = "null"
              THEN CatchNetworkError(d, NullReadMessage("detail"))
              ELSE setStatus(d, "error", PrefixBackendFailed \o http.statusText)

\* the handler leaving the tokens of an earlier response in place once the
\* token display is revealed
AfterJsonKeepsFirstTokens(d, http, body) ==
    IF body.kind = "unparsable"
    THEN CatchNetworkError(d, body.message)
    ELSE IF http.ok
         THEN LET shown == [setStatus(d, "success", MsgBackendOk) EXCEPT !.tokenSection = "block"]
              IN  IF body.kind = "null"
                  THEN CatchNetworkError(shown, NullReadMessage("access_token"))
                  ELSE IF d.tokenSection = "block"
                  THEN shown
                  ELSE [shown EXCEPT
                          !.accessToken = Or(body.data.access_token, Or(body.data.access, "N/A")),
                          !.refreshToken = Or(body.data.refresh_token, Or(body.data.refresh, "N/A"))]
         ELSE IF body.kind = "null"
              THEN CatchNetworkError(d, NullReadMessage("detail"))
              ELSE setStatus(d, "error",
                             PrefixBackendFailed \o Or(body.data.detail, http.statusText))

\* the handler from the result of await response.json() to its end
AfterJson(d, http, body) ==
    IF body.kind = "unparsable"
    THEN CatchNetworkError(d, body.message)
    ELSE IF http.ok
         THEN LET shown == [setStatus(d, "success", MsgBackendOk) EXCEPT !.tokenSection = "block"]
              IN  IF body.kind = "null"
                  THEN CatchNetworkError(shown, NullReadMessage("access_token"))
                  ELSE [shown EXCEPT
                          !.accessToken = Or(body.data.access_token, Or(body.data.access, "N/A")),
                          !.refreshToken = Or(body.data.refresh_token, Or(body.data.refresh, "N/A"))]
         ELSE IF body.kind = "null"
              THEN CatchNetworkError(d, NullReadMessage("detail"))
              ELSE setStatus(d, "error",
                             PrefixBackendFailed \o Or(body.data.detail, http.statusText))

\* a fetch that is skipped when a request with the same code is in flight
FetchPostDeduplicated(flights, id, code) ==
    IF \E q \in flights : q.code = code
    THEN flights
    ELSE flights \cup {[id |-> id, code |-> code, pc |-> "fetch", http |-> NoHttp]}

\* fetch('/api/v1/users/login/google/', {method: 'POST', ..., body:
\* JSON.stringify({ code })}): the handler joins those suspended at an await
FetchPost(flights, id, code) ==
    flights \cup {[id |-> id, code |-> code, pc |-> "fetch", http |-> NoHttp]}

\* backendLoginBtn.addEventListener('click', async ...) up to await fetch(...)
backendLoginBtnClick ==
    LET code == authCode
        seen == [NoLast EXCEPT !.op = "backendLoginBtn", !.code = code]
    IN  IF CodeMissing(code)
        THEN /\ last' = seen
             /\ UNCHANGED <<client, sdkLoaded, domVars, providerVars,
                            callbackVars, postCount, inflight, copyVars>>
        ELSE /\ postCount < MaxExchanges
             /\ SetDom(setStatus(Dom, "pending", MsgBackendPending))
             /\ postCount' = postCount + 1
             /\ inflight' = FetchPost(inflight, postCount + 1, code)
             /\ last' = [seen EXCEPT !.posted = <<[code |-> code]>>]
             /\ UNCHANGED <<client, sdkLoaded, providerVars, callbackVars, copyVars>>

\* await fetch(...) settles: the request failed with no response, or a
\* response arrived and the handler goes on to await response.json()
FetchSettles(https) ==
    \E r \in {q \in inflight : q.pc = "fetch"} :
        /\ \/ \E message \in ErrorMessages :
                /\ SetDom(CatchNetworkError(Dom, message))
                /\ inflight' = inflight \ {r}
                /\ last' = [NoLast EXCEPT !.op = "fetch", !.code = r.code, !.id = r.id,
                                          !.settled = "rejected", !.message = message]
           \/ \E http \in https :
                /\ SetDom(Dom)
                /\ inflight' = (inflight \ {r}) \cup {[r EXCEPT !.pc = "json", !.http = http]}
                /\ last' = [NoLast EXCEPT !.op = "fetch", !.code = r.code, !.id = r.id,
                                          !.settled = "resolved", !.http = http]
        /\ UNCHANGED <<client, sdkLoaded, providerVars, callbackVars, postCount, copyVars>>

\* await response.json() settles and the handler runs to its end
JsonSettles(bodies) ==
    \E r \in {q \in inflight : q.pc = "json"}, body \in bodies :
        /\ SetDom(AfterJson(Dom, r.http, body))
        /\ inflight' = inflight \ {r}
        /\ last' = [NoLast EXCEPT !.op = "json", !.code = r.code, !.id = r.id,
                                  !.http = r.http, !.body = body,
                                  !.settled = IF body.kind = "unparsable"
                                              THEN "rejected" ELSE "resolved",
                                  !.alert = IF r.http.ok /\ body.kind = "object"
                                            THEN AlertLoginOk ELSE NoAlert]
        /\ UNCHANGED <<client, sdkLoaded, providerVars, callbackVars, postCount, copyVars>>

-----------------------------------------------------------------------------
(* Clipboard copy *)

\* the elements with a copy click handler
CopyButton == "copyBtn"
CopyBlocks == {"copyCodeBlock", "accessTokenBlock", "refreshTokenBlock"}

\* element.textContent of the node a copy handler reads
TextOf(element) ==
    CASE element \in {"copyBtn", "copyCodeBlock"} -> authCode
      [] element = "accessTokenBlock" -> accessToken
      [] element = "refreshTokenBlock" -> refreshToken

\* if (!text || text === 'N/A') return;
CopyRefused(text) == ~Truthy(text) \/ text = NotAvailable

\* navigator.clipboard.writeText(text) called by the handler of element
WriteText(element, text) ==
    /\ copyCount < MaxCopies
    /\ copyCount' = copyCount + 1
    /\ copying' = copying \cup {[id |-> copyCount + 1, element |-> element, text |-> text]}
    /\ last' = [NoLast EXCEPT !.op = "copy", !.element = element, !.text = text,
                              !.written = <<text>>]
    /\ UNCHANGED <<clipboard, acks, timers>>

\* copyBtn.addEventListener('click', ...)
copyBtnClick ==
    /\ WriteText(CopyButton, authCode)
    /\ UNCHANGED <<client, sdkLoaded, domVars, providerVars, callbackVars, postCount, inflight>>

\* the click handlers of the three blocks: copyToClipboard(element)
copyBlockClick ==
    \E element \in CopyBlocks :
        LET text == TextOf(element)
        IN  /\ IF CopyRefused(text)
               THEN /\ last' = [NoLast EXCEPT !.op = "copy", !.element = element,
                                              !.text = text]
                    /\ UNCHANGED copyVars
               ELSE WriteText(element, text)
            /\ UNCHANGED <<client, sdkLoaded, domVars, providerVars, callbackVars, postCount,
                           inflight>>

\* the promise of a writeText call settles: rejected (no permission), or
\* fulfilled with the text on the clipboard, and then the callback shows the
\* copied look and schedules the timer that puts back the look it found
WriteTextSettles ==
    \E r \in copying :
        /\ copying' = copying \ {r}
        /\ \/ /\ last' = [NoLast EXCEPT !.op = "writeText", !.element = r.element,
                                        !.text = r.text, !.settled = "rejected"]
              /\ UNCHANGED <<clipboard, acks, timers>>
           \/ /\ clipboard' = <<r.text>>
              /\ acks' = acks \cup {r.element}
              /\ timers' = timers \cup {[id |-> r.id, element |-> r.element,
                                         original |-> r.element \in acks]}
              /\ last' = [NoLast EXCEPT !.op = "writeText", !.element = r.element,
                                        !.text = r.text, !.settled = "resolved"]
        /\ UNCHANGED <<client, sdkLoaded, domVars, providerVars, callbackVars, postCount,
                       inflight, copyCount>>

\* a timer fires: copyBtn.textContent = originalText, or
\* parent.style.background = originalBg
AckReverts ==
    \E t \in timers :
        /\ timers' = timers \ {t}
        /\ acks' = IF t.original THEN acks \cup {t.element} ELSE acks \ {t.element}
        /\ last' = [NoLast EXCEPT !.op = "setTimeout", !.element = t.element]
        /\ UNCHANGED <<client, sdkLoaded, domVars, providerVars, callbackVars, postCount,
                       inflight, clipboard, copyCount, copying>>

-----------------------------------------------------------------------------

\* the page with every provider outcome and the sample backend bodies
Next ==
    \/ googleLoginBtnClick(ClientIdValues, InitOutcomes, RequestOutcomes)
    \/ ProviderCallback(Responses)
    \/ SdkLoads
    \/ backendLoginBtnClick
    \/ FetchSettles({h \in HttpOutcomes : h.statusText # ""})
    \/ JsonSettles(BodySamples)

Spec == Init /\ [][Next]_vars

\* the page after one authorization that ended with the code "X": the state
\* Spec reaches by a click with the SDK loaded and the client id " cid ", a
\* requestCode that opens the popup, and the callback {code: "X"}
AuthorizedResponse == [code |-> "X", error |-> UNDEFINED]
AuthorizedPage ==
    handleCodeResponse(
        TryRequestCode(InitialPage, [kind |-> "ok", message |-> ""],
                       [kind |-> "async", message |-> "", response |-> NoResponse]),
        AuthorizedResponse)

InitExchange ==
    /\ client = 1
    /\ sdkLoaded = TRUE
    /\ statusBar = AuthorizedPage.statusBar
    /\ statusText = AuthorizedPage.statusText
    /\ codeSection = AuthorizedPage.codeSection
    /\ authCode = AuthorizedPage.authCode
    /\ tokenSection = AuthorizedPage.tokenSection
    /\ accessToken = AuthorizedPage.accessToken
    /\ refreshToken = AuthorizedPage.refreshToken
    /\ requestCalls = 1
    /\ outstanding = {}
    /\ errorDelivered = <<AuthorizedResponse.error>>
    /\ codeDelivered = <<AuthorizedResponse.code>>
    /\ codeAccepted = <<AuthorizedResponse.code>>
    /\ postCount = 0
    /\ inflight = {}
    /\ clipboard = <<>>
    /\ copyCount = 0
    /\ copying = {}
    /\ acks = {}
    /\ timers = {}
    /\ last = [NoLast EXCEPT !.op = "handleCodeResponse", !.client = 1,
                             !.response = AuthorizedResponse]

\* the exchange stage alone, with every backend answer
NextExchange ==
    \/ backendLoginBtnClick
    \/ FetchSettles(HttpOutcomes)
    \/ JsonSettles(Bodies)

SpecExchange == InitExchange /\ [][NextExchange]_vars

\* the backend answers 200 with no token property, or with both tokens
ExchangeResponse == [ok |-> TRUE, statusText |-> "OK"]
CopyBodies ==
    {b \in Bodies :
        /\ b.kind = "object"
        /\ b.data \in {NoBody.data,
                       [NoBody.data EXCEPT !.access_token = "A", !.refresh_token = "R"]}}

\* the page after the authorization of InitExchange and one exchange of its
\* code that the backend answered with body
ExchangedPage(body) ==
    AfterJson(setStatus(AuthorizedPage, "pending", MsgBackendPending), ExchangeResponse, body)

\* the pages the copy handlers are explored on, each a state Spec reaches: the
\* page as loaded, the page after one authorization, and the page after one
\* exchange that showed "N/A" for both tokens or showed both tokens
InitCopy ==
    \/ Init
    \/ InitExchange
    \/ \E body \in CopyBodies :
        /\ client = 1
        /\ sdkLoaded = TRUE
        /\ statusBar = ExchangedPage(body).statusBar
        /\ statusText = ExchangedPage(body).statusText
        /\ codeSection = ExchangedPage(body).codeSection
        /\ authCode = ExchangedPage(body).authCode
        /\ tokenSection = ExchangedPage(body).tokenSection
        /\ accessToken = ExchangedPage(body).accessToken
        /\ refreshToken = ExchangedPage(body).refreshToken
        /\ requestCalls = 1
        /\ outstanding = {}
        /\ errorDelivered = <<AuthorizedResponse.error>>
        /\ codeDelivered = <<AuthorizedResponse.code>>
        /\ codeAccepted = <<AuthorizedResponse.code>>
        /\ postCount = 1
        /\ inflight = {}
        /\ clipboard = <<>>
        /\ copyCount = 0
        /\ copying = {}
        /\ acks = {}
        /\ timers = {}
        /\ last = [NoLast EXCEPT !.op = "json", !.code = AuthorizedResponse.code, !.id = 1,
                                 !.http = ExchangeResponse, !.body = body,
                                 !.settled = "resolved", !.alert = AlertLoginOk]

\* the copy handlers alone
NextCopy ==
    \/ copyBtnClick
    \/ copyBlockClick
    \/ WriteTextSettles
    \/ AckReverts

SpecCopy == InitCopy /\ [][NextCopy]_vars


-----------------------------------------------------------------------------
(* Properties *)

\* sub occurs in s
Contains(s, sub) ==
    \E i \in 1..(Len(s) - Len(sub) + 1) : SubSeq(s, i, i + Len(sub) - 1) = sub

\* the payload handleCodeResponse was invoked with by the handler l records:
\* by the SDK calling back, or inside requestCode
DeliveredBy(l) ==
    IF l.op = "handleCodeResponse" THEN {l.response}
    ELSE IF l.op = "googleLoginBtn" /\ l.request.kind = "sync" THEN {l.request.response}
    ELSE {}

\* C1: a click on the begin-authorization button with a client id that is empty
\* after trimming, or with the SDK global undefined, constructs no provider
\* client, calls requestCode on none, registers and invokes no callback, and
\* leaves the client handle, the displayed code and the tokens as they were.
C1_RejectedClickTouchesNothing ==
    [][(last'.op = "googleLoginBtn" /\ (last'.clientId = "" \/ ~sdkLoaded))
        => /\ last'.init = NoInit
           /\ last'.request = NoRequest
           /\ UNCHANGED <<client, requestCalls, outstanding, callbackVars,
                          codeSection, authCode, tokenSection, accessToken, refreshToken>>]_vars

\* a click rejected for its client id, after an earlier attempt obtained a code
C1_Witness ==
    /\ last.op = "googleLoginBtn"
    /\ last.alert = AlertMissingClientId
    /\ client # 0
    /\ authCode # ""

\* C2: when the callback is delivered with {code: X}, X non-empty, by the SDK
\* later or inside requestCode, then as soon as the click handler and the
\* callback have both finished the code display is revealed, the displayed code
\* is X and the status is the success status of handleCodeResponse.
C2_CodeCallbackEndsInSuccess ==
    \A r \in DeliveredBy(last) :
        (Truthy(r.code) /\ r.error = UNDEFINED)
        => /\ codeSection = "block"
           /\ authCode = r.code
           /\ statusBar = "status success"
           /\ statusText = MsgCodeObtained

\* requestCode invoked the callback with {code: "X"} before returning
C2_Witness ==
    /\ last.op = "googleLoginBtn"
    /\ last.clientId # ""
    /\ last.request.kind = "sync"
    /\ last.request.response = [code |-> "X", error |-> UNDEFINED]
    /\ authCode = "X"

\* C3: a callback payload with a non-empty error E, with or without a code,
\* sets the status to error with a message containing E and leaves the code
\* display's visibility and the displayed code as they were.
C3_ErrorCallbackKeepsCode ==
    [][\A r \in DeliveredBy(last') :
          Truthy(r.error)
          => /\ statusBar' = "status error"
             /\ Contains(statusText', r.error)
             /\ UNCHANGED <<codeSection, authCode>>]_vars

\* a payload with both an error and a code was delivered; its code is not shown
C3_Witness ==
    /\ last.op = "handleCodeResponse"
    /\ Truthy(last.response.error)
    /\ Truthy(last.response.code)
    /\ authCode # last.response.code
    /\ statusBar = "status error"

\* C4: when the callback delivered last carried an error, a click on the
\* exchange button issues no backend request.
C4_NoExchangeAfterErrorCallback ==
    (/\ errorDelivered # <<>>
     /\ Truthy(errorDelivered[1])
     /\ last.op = "backendLoginBtn")
    => last.posted = <<>>

\* C5: a click on the exchange button while the displayed code is empty issues
\* no request and leaves status, code display and token display as they were.
C5_ExchangeWithoutCodeIsNoOp ==
    [][(last'.op = "backendLoginBtn" /\ authCode = "")
        => /\ last'.posted = <<>>
           /\ UNCHANGED <<postCount, inflight, statusBar, statusText, codeSection, authCode,
                       tokenSection, accessToken, refreshToken>>]_vars

\* an exchange click with no code, while the status shows a provider error
C5_Witness ==
    /\ last.op = "backendLoginBtn"
    /\ last.posted = <<>>
    /\ authCode = ""
    /\ statusBar = "status error"

Present(v) == v # UNDEFINED

\* a property of a JSON body is present and not the empty string
PresentNonEmpty(v) == v # UNDEFINED /\ v # ""

\* C7 as stated: after a successful HTTP status with a JSON body, each displayed
\* token is its primary property if present, else its fallback property if
\* present, else "N/A"; the token display is revealed and the status is success.
C7_TokensFromPresentProperties ==
    (last.op = "json" /\ last.http.ok /\ last.body.kind \in {"object", "null"})
    => LET data == last.body.data
       IN  /\ accessToken = IF Present(data.access_token) THEN data.access_token
                            ELSE IF Present(data.access) THEN data.access ELSE "N/A"
           /\ refreshToken = IF Present(data.refresh_token) THEN data.refresh_token
                             ELSE IF Present(data.refresh) THEN data.refresh ELSE "N/A"
           /\ tokenSection = "block"
           /\ statusBar = "status success"
           /\ statusText = MsgBackendOk

\* C7 amended: after a successful HTTP status with a JSON object body, each
\* displayed token is its primary property if present and non-empty, else its
\* fallback property if present and non-empty, else "N/A", the two resolved
\* independently; the token display is revealed and the status is success.
C7_TokensFromNonEmptyProperties ==
    (last.op = "json" /\ last.http.ok /\ last.body.kind = "object")
    => LET data == last.body.data
       IN  /\ accessToken = IF PresentNonEmpty(data.access_token) THEN data.access_token
                            ELSE IF PresentNonEmpty(data.access) THEN data.access ELSE "N/A"
           /\ refreshToken = IF PresentNonEmpty(data.refresh_token) THEN data.refresh_token
                             ELSE IF PresentNonEmpty(data.refresh) THEN data.refresh ELSE "N/A"
           /\ tokenSection = "block"
           /\ statusBar = "status success"
           /\ statusText = MsgBackendOk

\* a success body whose access_token is empty and whose refresh_token is absent:
\* both tokens come from the fallback properties
C7_Witness ==
    /\ last.op = "json"
    /\ last.http.ok
    /\ last.body.kind = "object"
    /\ last.body.data.access_token = ""
    /\ last.body.data.access = "a"
    /\ last.body.data.refresh_token = UNDEFINED
    /\ last.body.data.refresh = "r"
    /\ accessToken = "a"
    /\ refreshToken = "r"

\* C8 as stated: after a non-success HTTP status with a JSON body, the status is
\* error with the failure message built from detail if present, else from the
\* status text; token display and tokens are as before.
C8_FailureMessageFromPresentDetail ==
    [][(last'.op = "json" /\ ~last'.http.ok /\ last'.body.kind \in {"object", "null"})
        => /\ statusBar' = "status error"
           /\ statusText' = PrefixBackendFailed \o
                  (IF Present(last'.body.data.detail) THEN last'.body.data.detail
                   ELSE last'.http.statusText)
           /\ UNCHANGED <<tokenSection, accessToken, refreshToken>>]_vars

\* C8 amended: after a non-success HTTP status with a JSON object body, the
\* status is error with the failure message built from detail if present and
\* non-empty, else from the status text; token display and tokens are as before.
C8_FailureMessageFromNonEmptyDetail ==
    [][(last'.op = "json" /\ ~last'.http.ok /\ last'.body.kind = "object")
        => /\ statusBar' = "status error"
           /\ statusText' = PrefixBackendFailed \o
                  (IF PresentNonEmpty(last'.body.data.detail) THEN last'.body.data.detail
                   ELSE last'.http.statusText)
           /\ UNCHANGED <<tokenSection, accessToken, refreshToken>>]_vars

\* HTTP 400 with {detail: "bad code"} after an earlier exchange displayed tokens
C8_Witness ==
    /\ last.op = "json"
    /\ ~last.http.ok
    /\ last.http.statusText = "Bad Request"
    /\ last.body.kind = "object"
    /\ last.body.data.detail = "bad code"
    /\ statusText = PrefixBackendFailed \o "bad code"
    /\ tokenSection = "block"
    /\ accessToken = "A"

\* C9: when fetch rejects, or response.json() rejects whatever the HTTP status,
\* the status is error with the connectivity message carrying the error text,
\* and token display and tokens are as before.
C9_NetworkOrParseFailure ==
    [][((last'.op = "fetch" /\ last'.settled = "rejected")
        \/ (last'.op = "json" /\ last'.body.kind = "unparsable"))
        => /\ statusBar' = "status error"
           /\ statusText' = PrefixNetwork \o
                  (IF last'.op = "fetch" THEN last'.message ELSE last'.body.message)
           /\ UNCHANGED <<tokenSection, accessToken, refreshToken>>]_vars

\* an unparsable body under a successful HTTP status, token display still hidden
C9_Witness ==
    /\ last.op = "json"
    /\ last.http.ok
    /\ last.body.kind = "unparsable"
    /\ statusBar = "status error"
    /\ tokenSection = "none"

\* the status handleCodeResponse writes for a payload, {} when it writes none
CallbackStatus(response) ==
    IF Truthy(response.error)
    THEN {<<"status error", PrefixProviderError \o response.error>>}
    ELSE IF Truthy(response.code)
         THEN {<<"status success", MsgCodeObtained>>}
         ELSE {}

\* the status that belongs to the handler run l records: the last one that
\* run writes, {} when the run writes none
StatusWrittenBy(l) ==
    IF l.op = "googleLoginBtn"
    THEN IF l.alert # NoAlert THEN {}
         ELSE IF l.init.kind = "throw"
              THEN {<<"status error", PrefixInitFailed \o l.init.message>>}
         ELSE IF l.request.kind = "throw"
              THEN {<<"status error", PrefixInitFailed \o l.request.message>>}
         ELSE IF l.request.kind = "sync" /\ CallbackStatus(l.request.response) # {}
              THEN CallbackStatus(l.request.response)
         ELSE {<<"status pending", MsgOpening>>}
    ELSE IF l.op = "handleCodeResponse" THEN CallbackStatus(l.response)
    ELSE IF l.op = "backendLoginBtn"
         THEN IF l.posted # <<>> THEN {<<"status pending", MsgBackendPending>>} ELSE {}
    ELSE IF l.op = "fetch"
         THEN IF l.settled = "rejected"
              THEN {<<"status error", PrefixNetwork \o l.message>>} ELSE {}
    ELSE IF l.op = "json"
         THEN IF l.body.kind = "unparsable"
              THEN {<<"status error", PrefixNetwork \o l.body.message>>}
              ELSE IF l.body.kind = "null"
              THEN {<<"status error",
                      PrefixNetwork \o NullReadMessage(IF l.http.ok THEN "access_token"
                                                       ELSE "detail")>>}
              ELSE IF l.http.ok THEN {<<"status success", MsgBackendOk>>}
              ELSE {<<"status error",
                      PrefixBackendFailed \o (IF PresentNonEmpty(l.body.data.detail)
                                              THEN l.body.data.detail
                                              ELSE l.http.statusText)>>}
    ELSE {}

\* the handler run l records was rejected by a precondition
RejectedByPrecondition(l) ==
    \/ l.op = "googleLoginBtn" /\ l.alert # NoAlert
    \/ l.op = "backendLoginBtn" /\ l.posted = <<>>

-----------------------------------------------------------------------------
(* Error taxonomy *)

\* s begins with p
StartsWith(s, p) == Len(s) >= Len(p) /\ SubSeq(s, 1, Len(p)) = p

\* the errors of the taxonomy the handler run l records ended with, by the
\* branch of the source that ran: the two early returns of the begin click, its
\* catch block, the error branch of handleCodeResponse, the else branch of the
\* exchange handler and its catch block
ErrorKinds(l) ==
    {k \in {"MissingClientId", "SdkUnavailable", "InitializationFailed",
            "ProviderError", "BackendRejected", "NetworkFailure"} :
        \/ k = "MissingClientId" /\ l.op = "googleLoginBtn" /\ l.alert = AlertMissingClientId
        \/ k = "SdkUnavailable" /\ l.op = "googleLoginBtn" /\ l.alert = AlertSdkUnavailable
        \/ k = "InitializationFailed" /\ l.op = "googleLoginBtn"
              /\ (l.init.kind = "throw" \/ l.request.kind = "throw")
        \/ k = "ProviderError" /\ \E r \in DeliveredBy(l) : Truthy(r.error)
        \/ k = "BackendRejected" /\ l.op = "json" /\ ~l.http.ok /\ l.body.kind = "object"
        \/ k = "NetworkFailure"
              /\ \/ l.op = "fetch" /\ l.settled = "rejected"
                 \/ l.op = "json" /\ l.body.kind \in {"unparsable", "null"}}

\* the prefix of the status message written for an error of kind k
ErrorPrefix(k) ==
    CASE k = "InitializationFailed" -> PrefixInitFailed
      [] k = "ProviderError" -> PrefixProviderError
      [] k = "BackendRejected" -> PrefixBackendFailed
      [] k = "NetworkFailure" -> PrefixNetwork
      [] OTHER -> ""

\* provider code requests and backend requests are issued by click handlers
\* only, one per click: no handler run issues one on its own after a failure
NoAutomaticRetry ==
    /\ \/ requestCalls' = requestCalls
       \/ last'.op = "googleLoginBtn" /\ requestCalls' = requestCalls + 1
    /\ \/ postCount' = postCount
       \/ last'.op = "backendLoginBtn" /\ postCount' = postCount + 1

\* the attempt the failing run belongs to is over: nothing of it stays
\* outstanding or in flight
AttemptEnded(k) ==
    CASE k \in {"MissingClientId", "SdkUnavailable", "InitializationFailed"} ->
            outstanding' = outstanding /\ postCount' = postCount
      [] k = "ProviderError" ->
            outstanding' \subseteq outstanding /\ postCount' = postCount
      [] OTHER ->
            /\ inflight' \subseteq inflight
            /\ inflight' # inflight
            /\ UNCHANGED <<requestCalls, postCount>>

-----------------------------------------------------------------------------
(* Overlapping authorization attempts *)

\* C12: in no reachable state are two provider code requests issued by the page
\* both still waiting for their callback.
C12_AtMostOneOutstanding == Cardinality(outstanding) <= 1

\* C13: a begin click while an attempt is pending creates a new client and
\* registers its callback next to the old one, which is not cancelled; a
\* callback delivered for any client, the latest or an older one, also after the
\* latest client's callback, writes status and code by the rules of
\* handleCodeResponse, so that the displayed code is the one written by the
\* callback delivered last among those that wrote one.
C13_LastDeliveredCallbackWins ==
    [][/\ (last'.op = "googleLoginBtn" /\ last'.request.kind = "async" /\ outstanding # {})
          => /\ client' # client
             /\ client' \notin outstanding
             /\ outstanding' = outstanding \cup {client'}
       /\ last'.op = "handleCodeResponse"
          => /\ last'.client \in outstanding
             /\ outstanding' = outstanding \ {last'.client}
             /\ IF Truthy(last'.response.error)
                THEN /\ statusBar' = "status error"
                     /\ statusText' = PrefixProviderError \o last'.response.error
                     /\ UNCHANGED <<codeSection, authCode>>
                ELSE IF Truthy(last'.response.code)
                THEN /\ statusBar' = "status success"
                     /\ statusText' = MsgCodeObtained
                     /\ codeSection' = "block"
                     /\ authCode' = last'.response.code
                ELSE UNCHANGED <<statusBar, statusText, codeSection, authCode>>
       /\ authCode' = IF codeAccepted' = <<>> THEN "" ELSE codeAccepted'[1]]_vars

\* the callback of the first attempt was delivered after the second attempt's
\* callback: the first attempt's code is displayed
C13_Witness ==
    /\ last.op = "handleCodeResponse"
    /\ last.client = 1
    /\ client = 2
    /\ outstanding = {}
    /\ codeDelivered = <<"X">>
    /\ authCode = "X"
    /\ statusBar = "status success"

-----------------------------------------------------------------------------
(* Exchange requests *)

\* the step is a click on the exchange button while a non-empty code is shown
ExchangeClickWithCode ==
    /\ last'.op = "backendLoginBtn"
    /\ Truthy(authCode)
    /\ UNCHANGED sdkLoaded

\* C14: a click on the exchange button with a non-empty displayed code issues
\* exactly one POST, carrying that code, also when a POST with the same code
\* was issued before; no other step, a provider callback included, issues one.
\* The number of POSTs thus equals the number of such clicks.
C14_OnePostPerExchangeClick ==
    [][IF ExchangeClickWithCode
       THEN /\ postCount' = postCount + 1
            /\ last'.posted = <<[code |-> authCode]>>
            /\ \E r \in inflight' \ inflight :
                  /\ inflight' = inflight \cup {r}
                  /\ r.code = authCode
                  /\ r.pc = "fetch"
       ELSE /\ postCount' = postCount
            /\ \A r \in inflight' \ inflight : r.pc # "fetch"
            /\ (last'.op = "backendLoginBtn" /\ UNCHANGED sdkLoaded) => last'.posted = <<>>]_vars

\* the exchange button clicked twice with the same code: two POSTs carrying it
\* are in flight
C14_Witness ==
    /\ last.op = "backendLoginBtn"
    /\ postCount = 2
    /\ \E r1, r2 \in inflight : r1.id # r2.id /\ r1.code = r2.code /\ r2.code = authCode

-----------------------------------------------------------------------------
(* Initialization failures *)

\* C15: when initCodeClient or requestCode throws, the click handler ends with
\* the status error and the message carrying error.message, not with pending;
\* the displayed code, the tokens and the two displays are as before.  When
\* initCodeClient throws no client is stored and requestCode is not called.
C15_InitializationFailureCaught ==
    [][(last'.op = "googleLoginBtn"
        /\ (last'.init.kind = "throw" \/ last'.request.kind = "throw"))
        => LET message == IF last'.init.kind = "throw" THEN last'.init.message
                          ELSE last'.request.message
           IN  /\ statusBar' = "status error"
               /\ statusText' = PrefixInitFailed \o message
               /\ Contains(statusText', message)
               /\ UNCHANGED <<codeSection, authCode, tokenSection, accessToken, refreshToken,
                              outstanding, callbackVars>>
               /\ last'.init.kind = "throw"
                  => last'.request = NoRequest /\ UNCHANGED <<client, requestCalls>>]_vars

\* requestCode threw in an attempt started after an earlier one obtained a code
C15_Witness ==
    /\ last.op = "googleLoginBtn"
    /\ last.init.kind = "ok"
    /\ last.request.kind = "throw"
    /\ statusBar = "status error"
    /\ statusText = PrefixInitFailed \o last.request.message
    /\ authCode = "X"
    /\ codeSection = "block"

-----------------------------------------------------------------------------
(* Copy guards *)

\* C16: a copy handler run while the text it reads is "" or "N/A" calls
\* writeText for no text, so that no such write is pending, on the clipboard
\* or acknowledged.
C16_NoCopyOfEmptyOrSentinel ==
    /\ (last.op = "copy" /\ last.text \in {"", NotAvailable}) => last.written = <<>>
    /\ \A r \in copying : r.text \notin {"", NotAvailable}
    /\ clipboard \notin {<<"">>, <<NotAvailable>>}

-----------------------------------------------------------------------------
(* Status pairs *)

\* the messages setStatus is called with for each kind: fixed texts for pending
\* and success, a fixed prefix followed by the error text for error
StatusPair(bar, text) ==
    \/ bar = "status pending" /\ text \in {MsgOpening, MsgBackendPending}
    \/ bar = "status success" /\ text \in {MsgCodeObtained, MsgBackendOk}
    \/ bar = "status error"
       /\ \E prefix \in {PrefixProviderError, PrefixInitFailed, PrefixBackendFailed,
                         PrefixNetwork} : StartsWith(text, prefix)

\* C17: between handler runs the status kind and message are a pair written by
\* one setStatus call: pending with one of the two progress messages, success
\* with one of the two success messages, error with one of the four error
\* prefixes; before the first write they are the pair of the page as loaded.
C17_StatusKindAndMessagePaired ==
    \/ <<statusBar, statusText>> = <<InitialPage.statusBar, InitialPage.statusText>>
    \/ StatusPair(statusBar, statusText)

\* the status went from the pending of an exchange to a backend rejection while
\* an authorization attempt was pending as well
C17_Witness ==
    /\ last.op = "json"
    /\ statusBar = "status error"
    /\ StartsWith(statusText, PrefixBackendFailed)
    /\ outstanding # {}

-----------------------------------------------------------------------------
(* Resolution of an attempt by its callback *)

\* C18: once the callback has been delivered, whatever its payload, the status
\* is success with the payload's code stored and revealed, or error: it is not
\* left at the pending the attempt wrote.
C18_CallbackResolvesAttempt ==
    \A r \in DeliveredBy(last) :
        \/ /\ statusBar = "status success"
           /\ statusText = MsgCodeObtained
           /\ authCode = r.code
           /\ codeSection = "block"
        \/ /\ statusBar = "status error"
           /\ StartsWith(statusText, PrefixProviderError)

-----------------------------------------------------------------------------
(* Frame of the two stages *)

\* C19: no step of the exchange stage (click, fetch settling, body settling)
\* changes the displayed code or the code display's visibility; no step of the
\* authorization stage (click, callback, initialization failure) changes the
\* displayed tokens or the token display's visibility; a display that has been
\* revealed stays revealed.
C19_StagesKeepEachOthersResults ==
    [][/\ last'.op \in {"backendLoginBtn", "fetch", "json"}
          => UNCHANGED <<authCode, codeSection>>
       /\ last'.op \in {"googleLoginBtn", "handleCodeResponse"}
          => UNCHANGED <<accessToken, refreshToken, tokenSection>>
       /\ codeSection = "block" => codeSection' = "block"
       /\ tokenSection = "block" => tokenSection' = "block"]_vars

\* a callback stored a new code after an exchange had displayed tokens: the
\* tokens are still displayed
C19_Witness ==
    /\ last.op = "handleCodeResponse"
    /\ last.response.code = "Y"
    /\ authCode = "Y"
    /\ tokenSection = "block"
    /\ accessToken = "A"
    /\ refreshToken = "r"

-----------------------------------------------------------------------------
(* Overlapping exchanges *)

\* the token pair a JSON object body stands for
TokenPair(data) ==
    <<IF PresentNonEmpty(data.access_token) THEN data.access_token
      ELSE IF PresentNonEmpty(data.access) THEN data.access ELSE NotAvailable,
      IF PresentNonEmpty(data.refresh_token) THEN data.refresh_token
      ELSE IF PresentNonEmpty(data.refresh) THEN data.refresh ELSE NotAvailable>>

\* the handler run l records completed the success branch of the exchange
ExchangeSucceeded(l) == l.op = "json" /\ l.http.ok /\ l.body.kind = "object"

\* C20: with several exchange requests in flight, whichever response is
\* processed, in whatever order, belongs to a request still in flight with the
\* code read at its click; when it completes the success branch the displayed
\* tokens become those of its body, otherwise the tokens stay, and the status
\* becomes the one that response writes.  A begin click or a provider callback,
\* also one that displays a new code, changes no request in flight.
C20_LastProcessedResponseWins ==
    [][/\ \A r \in inflight' : \A q \in inflight : q.id = r.id => q.code = r.code
       /\ last'.op \in {"googleLoginBtn", "handleCodeResponse"} => UNCHANGED inflight
       /\ last'.op \in {"fetch", "json"}
          => /\ \E r \in inflight \ inflight' :
                   /\ r.id = last'.id
                   /\ r.code = last'.code
                   /\ \A q \in inflight' : q.id = r.id \/ q \in inflight
             /\ IF ExchangeSucceeded(last')
                THEN /\ <<accessToken', refreshToken'>> = TokenPair(last'.body.data)
                     /\ tokenSection' = "block"
                     /\ <<statusBar', statusText'>> = <<"status success", MsgBackendOk>>
                ELSE /\ UNCHANGED <<accessToken, refreshToken>>
                     /\ IF StatusWrittenBy(last') = {}
                        THEN UNCHANGED <<statusBar, statusText>>
                        ELSE <<statusBar', statusText'>> \in StatusWrittenBy(last')]_vars

\* the response to the first of two requests, issued with the code "X", was
\* processed after the response to the second and after a callback displayed
\* the code "Y": its tokens are the ones displayed
C20_Witness ==
    /\ ExchangeSucceeded(last)
    /\ last.id = 1
    /\ last.code = "X"
    /\ authCode = "Y"
    /\ postCount = 2
    /\ inflight = {}
    /\ <<accessToken, refreshToken>> = <<"A", "r">>
    /\ statusBar = "status success"

====
